---------------------------- MODULE Spec2Model ----------------------------
(***************************************************************************)
(* Model of segmentation.py: the learner risk segmentation script.         *)
(*                                                                         *)
(* The script is one straight-line pass over a data frame df: it adds the  *)
(* columns Engagement_Segment, Progress_Segment, Barriers_Flag and         *)
(* Composite_Segment, computes the KPI counts and percentages, builds the  *)
(* priority worklist and then the three per-segment tables.  Each          *)
(* statement that changes the frame or produces a table is one action; pc  *)
(* is the position in the script.                                          *)
(*                                                                         *)
(* Numbers: a numeric cell is [nan, v].  nan = TRUE is pandas' NaN (an     *)
(* unparseable or missing date or percentage, lines 39-41 and 46-50).      *)
(* Days_Since_Last_Seen holds whole days.  Progress holds TENTHS of a      *)
(* percent (49.9 % is 499), so that the thresholds 50 and 70 are 500 and   *)
(* 700 on that scale.  Every comparison with a NaN operand is false, as    *)
(* in Python.                                                              *)
(*                                                                         *)
(* Text: a Barriers cell is [null, s] with s the text as the sequence of   *)
(* its Unicode code points ("no" is <<110, 111>>); null = TRUE is the      *)
(* absent cell (NaN after read_csv).                                       *)
(***************************************************************************)
EXTENDS Integers, Sequences, FiniteSets, TLC

VARIABLES df, pc, total, critical, moderate, ontrack, pct, priority_df, seg_df

vars == <<df, pc, total, critical, moderate, ontrack, pct, priority_df, seg_df>>

---------------------------------------------------------------------------
(* Bounds of the model *)

MaxRows == 2

MaxDays == 16

ProgressSpread == 5

MaxBarrierLen == 5

(* Thresholds compiled into the script *)

EngagementCriticalDays == 14

EngagementModerateDays == 7

ProgressCriticalPct == 50

ProgressModeratePct == 70

WorklistInactivityDays == 10

---------------------------------------------------------------------------
(* Numeric cells *)

NaN == [nan |-> TRUE, v |-> 0]

Num(n) == [nan |-> FALSE, v |-> n]

\* x > c and x < c for a cell x and a number c; False when x is NaN.
Gt(x, c) == (~x.nan) /\ x.v > c

Lt(x, c) == (~x.nan) /\ x.v < c

\* A percentage written in whole percent, on the tenths scale of Progress.
Pct(p) == p * 10

---------------------------------------------------------------------------
(* Text cells *)

Null == [null |-> TRUE, s |-> <<>>]

Str(s) == [null |-> FALSE, s |-> s]

\* The characters str.strip() removes: the 29 code points for which
\* str.isspace() holds (TAB LF VT FF CR, FS GS RS US, SPACE, NEL, NBSP,
\* U+1680, U+2000..U+200A, U+2028, U+2029, U+202F, U+205F, U+3000).
Whitespace ==
    (9..13) \cup (28..32) \cup {133, 160, 5760} \cup (8192..8202)
    \cup {8232, 8233, 8239, 8287, 12288}

\* str.lower() on one character: A-Z and the upper-case letters of Latin-1
\* (U+00C0..U+00DE without the multiplication sign U+00D7) move up by 32.
\* Exact for code points below 256 and for the whitespace above, which has
\* no case; no character above U+00FF lower-cases to "n", "o" or "e".
LowerChar(c) ==
    IF c \in 65..90 \/ (c \in 192..222 /\ c # 215) THEN c + 32 ELSE c

lower(s) == [i \in 1..Len(s) |-> LowerChar(s[i])]

RECURSIVE lstrip(_)
lstrip(s) ==
    IF s # <<>> /\ Head(s) \in Whitespace THEN lstrip(Tail(s)) ELSE s

RECURSIVE rstrip(_)
rstrip(s) ==
    IF s # <<>> /\ s[Len(s)] \in Whitespace
    THEN rstrip(SubSeq(s, 1, Len(s) - 1))
    ELSE s

strip(s) == rstrip(lstrip(s))

\* ["none", "no", ""]
NoBarrierWords == { <<110, 111, 110, 101>>, <<110, 111>>, <<>> }

---------------------------------------------------------------------------
(* Segmentation logic, lines 58-90 *)

engagement_segment_ge(days) ==
    IF Gt(days, EngagementCriticalDays - 1) THEN "Critical"
    ELSE IF Gt(days, EngagementModerateDays) THEN "Moderate"
    ELSE "On Track"

engagement_segment(days) ==
    IF Gt(days, EngagementCriticalDays) THEN "Critical"
    ELSE IF Gt(days, EngagementModerateDays) THEN "Moderate"
    ELSE "On Track"

progress_segment_le(p) ==
    IF Lt(p, Pct(ProgressCriticalPct) + 1) THEN "Critical"
    ELSE IF Lt(p, Pct(ProgressModeratePct)) THEN "Moderate"
    ELSE "On Track"

progress_segment(p) ==
    IF Lt(p, Pct(ProgressCriticalPct)) THEN "Critical"
    ELSE IF Lt(p, Pct(ProgressModeratePct)) THEN "Moderate"
    ELSE "On Track"

barriers_flag_case_sensitive(x) ==
    IF (~x.null) /\ strip(x.s) \notin NoBarrierWords
    THEN "Has Barriers"
    ELSE "No Barriers"

\* The lambda of lines 76-79.
barriers_flag(x) ==
    IF (~x.null) /\ lower(strip(x.s)) \notin NoBarrierWords
    THEN "Has Barriers"
    ELSE "No Barriers"

composite_segment_no_barrier(row) ==
    IF row.Engagement_Segment = "Critical" \/ row.Progress_Segment = "Critical"
    THEN "Critical / Urgent"
    ELSE IF row.Engagement_Segment = "Moderate" \/ row.Progress_Segment = "Moderate"
    THEN "Moderate / At-Risk"
    ELSE "On Track / Low Risk"

composite_segment_short_label(row) ==
    IF row.Engagement_Segment = "Critical" \/ row.Progress_Segment = "Critical"
       \/ row.Barriers_Flag = "Has Barriers"
    THEN "Critical / Urgent"
    ELSE IF row.Engagement_Segment = "Moderate" \/ row.Progress_Segment = "Moderate"
    THEN "Moderate"
    ELSE "On Track / Low Risk"

composite_segment_progress_only(row) ==
    IF row.Engagement_Segment = "Critical" \/ row.Progress_Segment = "Critical"
       \/ row.Barriers_Flag = "Has Barriers"
    THEN "Critical / Urgent"
    ELSE IF row.Progress_Segment = "Moderate"
    THEN "Moderate / At-Risk"
    ELSE "On Track / Low Risk"

composite_segment(row) ==
    IF row.Engagement_Segment = "Critical" \/ row.Progress_Segment = "Critical"
       \/ row.Barriers_Flag = "Has Barriers"
    THEN "Critical / Urgent"
    ELSE IF row.Engagement_Segment = "Moderate" \/ row.Progress_Segment = "Moderate"
    THEN "Moderate / At-Risk"
    ELSE "On Track / Low Risk"

CompositeLabels == <<"Critical / Urgent", "Moderate / At-Risk", "On Track / Low Risk">>

---------------------------------------------------------------------------
(* Data frame helpers *)

\* frame[col] = values: row i gets values[i] in the column col.
WithColumn(frame, col, values) ==
    [i \in 1..Len(frame) |-> frame[i] @@ (col :> values[i])]

\* frame.insert(0, "No.", range(1, len(frame)+1)); the column is named No here.
InsertNo(frame) ==
    [i \in 1..Len(frame) |-> frame[i] @@ ("No" :> i)]

\* df[df["Composite_Segment"] == seg]: a boolean mask keeps the frame's order.
RowsOfSegment(frame, seg) ==
    SelectSeq(frame, LAMBDA r : r.Composite_Segment = seg)

---------------------------------------------------------------------------
(* Priority worklist, lines 137-144 *)

in_priority_wrong_threshold(r) ==
    \/ r.Composite_Segment = "Critical / Urgent"
    \/ r.Barriers_Flag = "Has Barriers"
    \/ Gt(r.Days_Since_Last_Seen, EngagementCriticalDays)

\* The boolean mask of lines 138-140.
in_priority(r) ==
    \/ r.Composite_Segment = "Critical / Urgent"
    \/ r.Barriers_Flag = "Has Barriers"
    \/ Gt(r.Days_Since_Last_Seen, WorklistInactivityDays)

\* Key order of one sort column; na_position is 'last' for either direction.
KeyBefore(a, b, ascending) ==
    (~a.nan) /\ (b.nan \/ IF ascending THEN a.v < b.v ELSE a.v > b.v)

KeyEqual(a, b) ==
    (a.nan /\ b.nan) \/ ((~a.nan) /\ (~b.nan) /\ a.v = b.v)

sorts_before_progress_desc(r1, r2) ==
    \/ KeyBefore(r1.Days_Since_Last_Seen, r2.Days_Since_Last_Seen, FALSE)
    \/ /\ KeyEqual(r1.Days_Since_Last_Seen, r2.Days_Since_Last_Seen)
       /\ KeyBefore(r1.Progress, r2.Progress, FALSE)

\* by=["Days_Since_Last_Seen", "Progress"], ascending=[False, True]
sorts_before(r1, r2) ==
    \/ KeyBefore(r1.Days_Since_Last_Seen, r2.Days_Since_Last_Seen, FALSE)
    \/ /\ KeyEqual(r1.Days_Since_Last_Seen, r2.Days_Since_Last_Seen)
       /\ KeyBefore(r1.Progress, r2.Progress, TRUE)

\* r goes in front of the first row it sorts strictly before, so rows with
\* equal keys stay in the order they arrive in (the lexsort is stable).
InsertSorted(sorted, r) ==
    LET later == {k \in 1..Len(sorted) : sorts_before(r, sorted[k])}
        pos   == IF later = {} THEN Len(sorted) + 1
                 ELSE CHOOSE k \in later : \A j \in later : k <= j
    IN  SubSeq(sorted, 1, pos - 1) \o <<r>> \o SubSeq(sorted, pos, Len(sorted))

RECURSIVE SortPrefix(_, _)
SortPrefix(frame, n) ==
    IF n = 0 THEN <<>> ELSE InsertSorted(SortPrefix(frame, n - 1), frame[n])

sort_values(frame) == SortPrefix(frame, Len(frame))

---------------------------------------------------------------------------
(* Inputs: the frame as loaded and cleaned by lines 28-51 *)

\* The frame whose rows hold the given cells; the index runs from 1
\* (lines 31-32).
Frame(c) ==
    [i \in 1..Len(c) |-> [idx |-> i,
                          Days_Since_Last_Seen |-> c[i].days,
                          Progress |-> c[i].progress,
                          Barriers |-> c[i].barriers]]

\* Cells of the cohorts of several rows.
CohortCells ==
    [days     : {NaN, Num(5), Num(11), Num(20)},
     progress : {NaN, Num(300), Num(400), Num(800)},
     barriers : {Null, Str(<<120>>)}]

\* Cells of the one-row frames: every day count from -2 (a Last Seen after
\* the reference date) to MaxDays, and the percentages around both
\* thresholds, at both ends of [0, 100] and outside it.
Around(p) == (Pct(p) - ProgressSpread)..(Pct(p) + ProgressSpread)

RowCells ==
    [days     : {NaN} \cup {Num(d) : d \in -2..MaxDays},
     progress : {NaN} \cup {Num(p) : p \in Around(ProgressCriticalPct)
                                          \cup Around(ProgressModeratePct)
                                          \cup {-10, 0, 1000, 1010}},
     barriers : {Null, Str(<<120>>), Str(<<32, 78, 111>>), Str(<<110, 111, 10>>)}]

NoTables == [seg \in {CompositeLabels[k] : k \in 1..3} |-> <<>>]

NothingComputed ==
    /\ total = 0 /\ critical = 0 /\ moderate = 0 /\ ontrack = 0
    /\ pct = <<>>
    /\ priority_df = <<>>
    /\ seg_df = NoTables

Init ==
    /\ \/ \E n \in 0..MaxRows : \E c \in [1..n -> CohortCells] : df = Frame(c)
       \/ \E c \in RowCells : df = Frame(<<c>>)
    /\ pc = "engagement"
    /\ NothingComputed

---------------------------------------------------------------------------
(* The script, statement by statement *)

\* line 74
ComputeEngagement ==
    /\ pc = "engagement"
    /\ df' = WithColumn(df, "Engagement_Segment",
                        [i \in 1..Len(df) |->
                           engagement_segment(df[i].Days_Since_Last_Seen)])
    /\ pc' = "progress"
    /\ UNCHANGED <<total, critical, moderate, ontrack, pct, priority_df, seg_df>>

\* line 75
ComputeProgress ==
    /\ pc = "progress"
    /\ df' = WithColumn(df, "Progress_Segment",
                        [i \in 1..Len(df) |-> progress_segment(df[i].Progress)])
    /\ pc' = "barriers"
    /\ UNCHANGED <<total, critical, moderate, ontrack, pct, priority_df, seg_df>>

\* lines 76-79
ComputeBarriersFlag ==
    /\ pc = "barriers"
    /\ df' = WithColumn(df, "Barriers_Flag",
                        [i \in 1..Len(df) |-> barriers_flag(df[i].Barriers)])
    /\ pc' = "composite"
    /\ UNCHANGED <<total, critical, moderate, ontrack, pct, priority_df, seg_df>>

\* line 90
ComputeComposite ==
    /\ pc = "composite"
    /\ df' = WithColumn(df, "Composite_Segment",
                        [i \in 1..Len(df) |-> composite_segment(df[i])])
    /\ pc' = "kpis"
    /\ UNCHANGED <<total, critical, moderate, ontrack, pct, priority_df, seg_df>>

\* lines 98-107: the counts, then count/total*100 for the three metrics.
\* The quotient is kept exact as numerator and denominator.
\* With total = 0 the first division raises ZeroDivisionError and the script
\* stops there.
ComputeKPIs ==
    /\ pc = "kpis"
    /\ total' = Len(df)
    /\ critical' = Len(RowsOfSegment(df, CompositeLabels[1]))
    /\ moderate' = Len(RowsOfSegment(df, CompositeLabels[2]))
    /\ ontrack' = Len(RowsOfSegment(df, CompositeLabels[3]))
    /\ IF total' = 0
       THEN /\ pc' = "crashed"
            /\ pct' = pct
       ELSE /\ pc' = "priority"
            /\ pct' = << [num |-> critical' * 100, den |-> total'],
                         [num |-> moderate' * 100, den |-> total'],
                         [num |-> ontrack' * 100, den |-> total'] >>
    /\ UNCHANGED <<df, priority_df, seg_df>>

\* lines 137-144
BuildPriority ==
    /\ pc = "priority"
    /\ priority_df' = InsertNo(sort_values(SelectSeq(df, in_priority)))
    /\ pc' = "segments"
    /\ UNCHANGED <<df, total, critical, moderate, ontrack, pct, seg_df>>

\* lines 277-279, the three iterations of the loop
BuildSegments ==
    /\ pc = "segments"
    /\ seg_df' = [seg \in DOMAIN seg_df |-> InsertNo(RowsOfSegment(df, seg))]
    /\ pc' = "done"
    /\ UNCHANGED <<df, total, critical, moderate, ontrack, pct, priority_df>>

Next ==
    \/ ComputeEngagement
    \/ ComputeProgress
    \/ ComputeBarriersFlag
    \/ ComputeComposite
    \/ ComputeKPIs
    \/ BuildPriority
    \/ BuildSegments

Spec == Init /\ [][Next]_vars

---------------------------------------------------------------------------
(* composite_segment as a function of its row: every combination of the    *)
(* three columns it reads, with a label no classifier of the script        *)
(* produces ("Unknown") among them, on pairs of rows that differ in the    *)
(* other columns.                                                          *)

SubSegments == {"Critical", "Moderate", "On Track", "Unknown"}

ClassifiedRows ==
    { [Days_Since_Last_Seen |-> d, Progress |-> Num(300), Barriers |-> b,
       Engagement_Segment |-> e, Progress_Segment |-> p, Barriers_Flag |-> f] :
         d \in {NaN, Num(20)}, b \in {Null, Str(<<120>>)},
         e \in SubSegments, p \in SubSegments,
         f \in {"Has Barriers", "No Barriers"} }

InitComposite ==
    /\ \E r1 \in ClassifiedRows : \E r2 \in ClassifiedRows :
          \/ df = << r1 @@ ("idx" :> 1) >>
          \/ /\ r1.Engagement_Segment = r2.Engagement_Segment
             /\ r1.Progress_Segment = r2.Progress_Segment
             /\ r1.Barriers_Flag = r2.Barriers_Flag
             /\ df = << r1 @@ ("idx" :> 1), r2 @@ ("idx" :> 2) >>
    /\ pc = "composite"
    /\ NothingComputed

NextComposite == ComputeComposite

SpecComposite == InitComposite /\ [][NextComposite]_vars

---------------------------------------------------------------------------
(* The Barriers_Flag lambda on every text of up to MaxBarrierLen           *)
(* characters of BarrierAlphabet, and on the absent cell.                  *)

\* LF, SPACE, "N", "O", "e", "n", "o", "x", NBSP
BarrierAlphabet == {10, 32, 78, 79, 101, 110, 111, 120, 160}

BarrierTexts == UNION { [1..n -> BarrierAlphabet] : n \in 0..MaxBarrierLen }

InitBarriers ==
    /\ \E b \in {Null} \cup {Str(t) : t \in BarrierTexts} :
          df = WithColumn(
                 WithColumn(Frame(<< [days |-> Num(5), progress |-> Num(800),
                                      barriers |-> b] >>),
                            "Engagement_Segment", << engagement_segment(Num(5)) >>),
                 "Progress_Segment", << progress_segment(Num(800)) >>)
    /\ pc = "barriers"
    /\ NothingComputed

NextBarriers == ComputeBarriersFlag

SpecBarriers == InitBarriers /\ [][NextBarriers]_vars

---------------------------------------------------------------------------
(* Properties *)

\* Which columns and tables exist at the current position of the script.
HasEngagement == pc \notin {"engagement"}

HasProgress == pc \notin {"engagement", "progress"}

HasFlag == pc \notin {"engagement", "progress", "barriers"}

HasComposite == pc \notin {"engagement", "progress", "barriers", "composite"}

HasCounts == pc \in {"priority", "segments", "done", "crashed"}

HasPriority == pc \in {"segments", "done"}

HasSegments == pc = "done"

Rows == DOMAIN df

Worklist == DOMAIN priority_df

\* C1: for every defined day count the engagement segment is exactly one of
\* Critical, Moderate, On Track: Critical iff days > 14, Moderate iff
\* 7 < days <= 14, On Track iff days <= 7; 7 is On Track, 8 and 14 are
\* Moderate, 15 is Critical.
C1_EngagementThresholds ==
    HasEngagement =>
      \A i \in Rows :
        LET d == df[i].Days_Since_Last_Seen
            e == df[i].Engagement_Segment
        IN  (~d.nan) =>
              /\ e \in {"Critical", "Moderate", "On Track"}
              /\ (e = "Critical") <=> (d.v > 14)
              /\ (e = "Moderate") <=> (7 < d.v /\ d.v <= 14)
              /\ (e = "On Track") <=> (d.v <= 7)
              /\ (d.v = 7) => (e = "On Track")
              /\ (d.v = 8) => (e = "Moderate")
              /\ (d.v = 14) => (e = "Moderate")
              /\ (d.v = 15) => (e = "Critical")

C1_Witness ==
    /\ HasEngagement
    /\ \E i \in Rows : /\ df[i].Days_Since_Last_Seen = Num(14)
                       /\ df[i].Engagement_Segment = "Moderate"

\* C2: for every defined progress the progress segment is exactly one of
\* Critical, Moderate, On Track: Critical iff progress < 50, Moderate iff
\* 50 <= progress < 70, On Track iff progress >= 70; 49.9 is Critical, 50 and
\* 69.9 are Moderate, 70 is On Track, and values below 0 or above 100 are
\* compared like any other (progress is in tenths of a percent).
C2_ProgressThresholds ==
    HasProgress =>
      \A i \in Rows :
        LET p == df[i].Progress
            g == df[i].Progress_Segment
        IN  (~p.nan) =>
              /\ g \in {"Critical", "Moderate", "On Track"}
              /\ (g = "Critical") <=> (p.v < 500)
              /\ (g = "Moderate") <=> (500 <= p.v /\ p.v < 700)
              /\ (g = "On Track") <=> (p.v >= 700)
              /\ (p.v = 499) => (g = "Critical")
              /\ (p.v = 500) => (g = "Moderate")
              /\ (p.v = 699) => (g = "Moderate")
              /\ (p.v = 700) => (g = "On Track")
              /\ (p.v < 0) => (g = "Critical")
              /\ (p.v > 1000) => (g = "On Track")

C2_Witness ==
    /\ HasProgress
    /\ \E i \in Rows : /\ df[i].Progress = Num(500)
                       /\ df[i].Progress_Segment = "Moderate"

\* C3: the composite segment is a function of the engagement segment, the
\* progress segment and the barrier flag alone: Critical if either segment is
\* Critical or there is a barrier, otherwise Moderate if either segment is
\* Moderate, otherwise On Track; an Unknown segment counts as neither.
C3_CompositeResolution ==
    HasComposite =>
      /\ \A i \in Rows :
           LET e == df[i].Engagement_Segment
               g == df[i].Progress_Segment
               b == df[i].Barriers_Flag = "Has Barriers"
               c == df[i].Composite_Segment
               crit == e = "Critical" \/ g = "Critical" \/ b
               mod  == (~crit) /\ (e = "Moderate" \/ g = "Moderate")
           IN  /\ (c = "Critical / Urgent") <=> crit
               /\ (c = "Moderate / At-Risk") <=> mod
               /\ (c = "On Track / Low Risk") <=> ((~crit) /\ (~mod))
      /\ \A i \in Rows : \A j \in Rows :
           ( /\ df[i].Engagement_Segment = df[j].Engagement_Segment
             /\ df[i].Progress_Segment = df[j].Progress_Segment
             /\ df[i].Barriers_Flag = df[j].Barriers_Flag )
           => df[i].Composite_Segment = df[j].Composite_Segment

C3_Witness ==
    /\ HasComposite
    /\ Len(df) = 2
    /\ df[1].Days_Since_Last_Seen # df[2].Days_Since_Last_Seen
    /\ df[1].Engagement_Segment = "Unknown"
    /\ df[1].Progress_Segment = "On Track"
    /\ df[1].Barriers_Flag = "No Barriers"
    /\ df[1].Composite_Segment = "On Track / Low Risk"

\* C4: an undefined day count gives an engagement segment that is none of
\* Critical, Moderate, On Track, and an undefined progress gives a progress
\* segment that is none of them.
C4_UndefinedIsUnknown ==
    /\ HasEngagement =>
         \A i \in Rows :
           df[i].Days_Since_Last_Seen.nan =>
             df[i].Engagement_Segment \notin {"Critical", "Moderate", "On Track"}
    /\ HasProgress =>
         \A i \in Rows :
           df[i].Progress.nan =>
             df[i].Progress_Segment \notin {"Critical", "Moderate", "On Track"}

\* C5: on an empty frame the run does not fail: total and the three counts
\* are 0, the percentages are computed without a division by zero, and the
\* worklist is empty.
C5_EmptyRunCompletes ==
    (df = <<>>) =>
      /\ pc # "crashed"
      /\ HasCounts => (total = 0 /\ critical = 0 /\ moderate = 0 /\ ontrack = 0)
      /\ HasPriority => priority_df = <<>>

\* C6: a row is in the worklist iff its composite segment is Critical, or it
\* has a barrier, or its day count is defined and above 10; the rule takes a
\* row with 11 days, On Track and no barrier, and leaves out one with 5 days
\* or with an undefined day count.
C6_WorklistMembership ==
    /\ HasPriority =>
         \A i \in Rows :
           (\E k \in Worklist : priority_df[k].idx = df[i].idx)
           <=> \/ df[i].Composite_Segment = "Critical / Urgent"
               \/ df[i].Barriers_Flag = "Has Barriers"
               \/ /\ ~df[i].Days_Since_Last_Seen.nan
                  /\ df[i].Days_Since_Last_Seen.v > 10
    /\ \A d \in {NaN, Num(5), Num(11)} :
         in_priority([Composite_Segment |-> "On Track / Low Risk",
                      Barriers_Flag |-> "No Barriers",
                      Days_Since_Last_Seen |-> d])
         <=> d = Num(11)

C6_Witness ==
    /\ HasPriority
    /\ Len(df) = 2
    /\ Len(priority_df) = 1
    /\ priority_df[1].Days_Since_Last_Seen = Num(11)
    /\ priority_df[1].Composite_Segment = "Moderate / At-Risk"
    /\ priority_df[1].Barriers_Flag = "No Barriers"

\* C7: the worklist is in descending order of days with undefined days last,
\* then ascending order of progress with undefined progress last, rows with
\* equal keys in input order, each row once, and the row at position i is
\* numbered i.
C7_WorklistOrder ==
    HasPriority =>
      \A i \in Worklist :
        /\ priority_df[i].No = i
        /\ \A j \in Worklist :
             (i < j) =>
               LET a  == priority_df[i]
                   b  == priority_df[j]
                   da == a.Days_Since_Last_Seen
                   db == b.Days_Since_Last_Seen
                   pa == a.Progress
                   pb == b.Progress
                   sameDays == da = db
                   sameProgress == pa = pb
               IN  /\ a.idx # b.idx
                   /\ da.nan => db.nan
                   /\ ((~da.nan) /\ (~db.nan)) => da.v >= db.v
                   /\ sameDays => (pa.nan => pb.nan)
                   /\ (sameDays /\ (~pa.nan) /\ (~pb.nan)) => pa.v <= pb.v
                   /\ (sameDays /\ sameProgress) => a.idx < b.idx

C7_Witness ==
    /\ HasPriority
    /\ Len(df) = 2
    /\ df[1].Days_Since_Last_Seen = Num(20) /\ df[1].Progress = Num(400)
    /\ df[2].Days_Since_Last_Seen = Num(20) /\ df[2].Progress = Num(300)
    /\ Len(priority_df) = 2
    /\ priority_df[1].idx = 2 /\ priority_df[1].No = 1
    /\ priority_df[2].idx = 1 /\ priority_df[2].No = 2

\* C8: every row is in exactly one of the three composite tables, once; the
\* three counts add up to the number of rows; each table is in input order
\* and numbered from 1.
C8_SegmentsPartition ==
    /\ HasCounts => (total = Len(df) /\ critical + moderate + ontrack = total)
    /\ HasSegments =>
         /\ \A i \in Rows :
              Cardinality({ <<seg, k>> \in
                              UNION { {seg} \X DOMAIN seg_df[seg] : seg \in DOMAIN seg_df } :
                              seg_df[seg][k].idx = df[i].idx }) = 1
         /\ \A seg \in DOMAIN seg_df :
              /\ \A k \in DOMAIN seg_df[seg] :
                   /\ seg_df[seg][k].No = k
                   /\ \E i \in Rows : df[i].idx = seg_df[seg][k].idx
              /\ \A k \in DOMAIN seg_df[seg] : \A m \in DOMAIN seg_df[seg] :
                   (k < m) => seg_df[seg][k].idx < seg_df[seg][m].idx
         /\ Len(seg_df["Critical / Urgent"]) = critical
         /\ Len(seg_df["Moderate / At-Risk"]) = moderate
         /\ Len(seg_df["On Track / Low Risk"]) = ontrack

C8_Witness ==
    /\ HasSegments
    /\ total = 2
    /\ critical = 1
    /\ moderate = 1
    /\ seg_df["Critical / Urgent"][1].idx = 2
    /\ seg_df["Critical / Urgent"][1].No = 1
    /\ seg_df["Moderate / At-Risk"][1].idx = 1

\* C9: the barrier flag is off exactly for an absent cell and for a text
\* that is, between any leading and trailing whitespace, "none", "no" or
\* empty in any mix of upper and lower case; it is on for every other text.
CaseVariants ==
    { <<>> }
    \cup { <<n, o>> : n \in {110, 78}, o \in {111, 79} }
    \cup { <<n, o, m, e>> : n \in {110, 78}, o \in {111, 79},
                            m \in {110, 78}, e \in {101, 69} }

NoBarrierText(t) ==
    \E a \in 0..Len(t) : \E z \in 0..(Len(t) - a) :
        /\ \A k \in 1..a : t[k] \in Whitespace
        /\ \A k \in (Len(t) - z + 1)..Len(t) : t[k] \in Whitespace
        /\ SubSeq(t, a + 1, Len(t) - z) \in CaseVariants

C9_BarrierFlag ==
    HasFlag =>
      \A i \in Rows :
        LET b == df[i].Barriers
            f == df[i].Barriers_Flag
        IN  /\ f \in {"Has Barriers", "No Barriers"}
            /\ (f = "No Barriers") <=> (b.null \/ NoBarrierText(b.s))

C9_Witness ==
    /\ HasFlag
    /\ \E i \in Rows : /\ df[i].Barriers = Str(<<10, 78, 79, 160>>)
                       /\ df[i].Barriers_Flag = "No Barriers"

\* C10: no row of the worklist is On Track; a row with a barrier or more
\* than 14 days is Critical; a row that is in the worklist without being
\* Critical or having a barrier has 11 to 14 days and is Moderate; so the
\* worklist is the Critical rows plus the other rows with 11 to 14 days.
C10_WorklistNeverOnTrack ==
    HasPriority =>
      /\ \A k \in Worklist : priority_df[k].Composite_Segment # "On Track / Low Risk"
      /\ \A i \in Rows :
           ( \/ df[i].Barriers_Flag = "Has Barriers"
             \/ (~df[i].Days_Since_Last_Seen.nan /\ df[i].Days_Since_Last_Seen.v > 14) )
           => df[i].Composite_Segment = "Critical / Urgent"
      /\ \A k \in Worklist :
           ( /\ priority_df[k].Composite_Segment # "Critical / Urgent"
             /\ priority_df[k].Barriers_Flag = "No Barriers" )
           => /\ ~priority_df[k].Days_Since_Last_Seen.nan
              /\ priority_df[k].Days_Since_Last_Seen.v \in 11..14
              /\ priority_df[k].Composite_Segment = "Moderate / At-Risk"
      /\ { priority_df[k].idx : k \in Worklist }
           = { df[i].idx : i \in
                 { r \in Rows :
                     \/ df[r].Composite_Segment = "Critical / Urgent"
                     \/ /\ ~df[r].Days_Since_Last_Seen.nan
                        /\ df[r].Days_Since_Last_Seen.v \in 11..14 } }

C10_Witness ==
    /\ HasPriority
    /\ \E k \in Worklist :
         /\ priority_df[k].Days_Since_Last_Seen = Num(11)
         /\ priority_df[k].Progress_Segment = "On Track"
         /\ priority_df[k].Composite_Segment = "Moderate / At-Risk"
    /\ \E i \in Rows : df[i].Composite_Segment = "On Track / Low Risk"

=============================================================================
